---- MODULE Spec2Model ----
(***************************************************************************)
(* A model of dropseed/deps-python: the collect run (src/src/collect.py),  *)
(* the act run (src/src/act.py) and the dependency-file classes they use   *)
(* (src/src/models.py), for the Requirements and Pipfile / Pipfile.lock    *)
(* dialects.                                                               *)
(*                                                                         *)
(* Files on disk are modelled by their parsed content: a manifest is the   *)
(* map from the declared dependency keys to their specifiers plus the      *)
(* list of files it includes ("-r other.txt"); a Pipfile.lock is its       *)
(* "_meta" block plus the map from locked package keys to versions.        *)
(* The external tools (dparse, pip, pipenv) are nondeterministic: a parse  *)
(* is valid or not, a native update fails or leaves any lock content.      *)
(* The poetry dialect (pyproject.toml / poetry.lock) is dispatched but no  *)
(* project of the model uses it. A digest is modelled as collision-free:   *)
(* the tagged value it was taken of.                                       *)
(***************************************************************************)
EXTENDS Integers, Sequences, FiniteSets, TLC

VARIABLES
    \* --- the file system and the environment
    input_path,   \* collect's argv[1]
    refs,         \* manifest path -> sequence of included files (dparser.resolved_files)
    mdisk,        \* manifest path -> [declared key -> specifiers]
    ldisk,        \* lockfile path -> [meta, pkgs]
    latest,       \* outdated dependency key -> latest version pip reports
    inventory,    \* the JSON document collect wrote (<<>>: never written)
    actOut,       \* the JSON document act wrote (<<>>: never written)
    \* --- collect
    cpc,          \* position of the collect run
    stack,        \* call stack of load_dependency_files: frames [path, i]
    files,        \* the manifests gathered so far, in order (paths)
    mi,           \* index of the manifest loop
    lockfiles,    \* the lockfile objects appended: [filename, content]
    direct_deps,  \* names gathered from every manifest
    li,           \* index of the lockfile loop
    output,       \* collect's `output` dict
    \* --- act
    apc,          \* position of the act run
    data,         \* act's `data` dict
    ai,           \* index of act's lockfile loop
    adone,        \* <<manifest, dependency>> pairs act already rewrote
    \* --- both
    err,          \* the exception that ended a run, or None
    \* --- history (read by the properties only)
    visits,       \* manifest path -> times load_dependency_file built it
    nupdates,     \* lockfile path -> native updates collect ran on it
    hPre,         \* lockfile path -> content fingerprinted before the last update
    hPost,        \* lockfile path -> content fingerprinted after the last update
    ldisk0,       \* the lockfiles as they were when collect started
    mdisk0,       \* the manifests as they were when act started
    drifts        \* edits made to manifests between collect and act

vars == <<input_path, refs, mdisk, ldisk, latest, inventory, actOut, cpc, stack,
          files, mi, lockfiles, direct_deps, li, output, apc, data, ai, adone,
          err, visits, nupdates, hPre, hPost, ldisk0, mdisk0, drifts>>

None == "None"

(***************************************************************************)
(* Bounds of the model.                                                    *)
(***************************************************************************)
\* the interpreter's recursion limit, in frames of load_dependency_files
RecursionLimit == 4
\* the most "-r" lines one requirements file holds
MaxRefs == 2
\* the most declarations removed from manifests between collect and act
MaxDrift == 1

Names == {"A", "B"}
Versions == {1, 2}
Metas == {"m1", "m2"}
ManifestPaths == {"a.txt", "b.txt", "Pipfile"}
LockPaths == {"Pipfile.lock"}
InputPaths == ManifestPaths \cup LockPaths

(***************************************************************************)
(* Specifiers (dparse's dep.specs): the empty set or one "==v" clause.     *)
(***************************************************************************)
NoSpecs == <<>>
Eq(v) == <<"==", v>>
AllSpecs == {NoSpecs} \cup {Eq(v) : v \in Versions}

\* str(dep.specs)
StrSpecs(specs) == IF specs = NoSpecs THEN "" ELSE specs[1] \o ToString(specs[2])

\* dep.specs.contains(version)
Contains(specs, v) == specs = NoSpecs \/ specs[2] = v

\* what the parser reads back from a declaration "name<constraint>"
ParseSpecs(constraint) == CHOOSE s \in AllSpecs : StrSpecs(s) = constraint

Range(s) == {s[i] : i \in DOMAIN s}

RECURSIVE Dedup(_)
\* the keys of a dict filled in the order of s: first occurrences, in order
Dedup(s) ==
    IF s = <<>> THEN <<>>
    ELSE LET r == Dedup(SubSeq(s, 1, Len(s) - 1))
             x == s[Len(s)]
         IN  IF x \in Range(r) THEN r ELSE Append(r, x)

(***************************************************************************)
(* models.py                                                               *)
(***************************************************************************)
\* load_dependency_file: the class chosen by the path's suffix
load_dependency_file(path) ==
    CASE path = "Pipfile" -> "Pipfile"
      [] path = "Pipfile.lock" -> "PipfileLock"
      [] path = "pyproject.toml" -> "PoetryPyproject"
      [] path = "poetry.lock" -> "PoetryLock"
      [] OTHER -> "Requirements"

\* the `lockfile` property: DepFile.lockfile is None, Pipfile.lockfile is
\* the Pipfile.lock of the same directory
lockfile(path) ==
    IF load_dependency_file(path) = "Pipfile" THEN "Pipfile.lock" ELSE None

\* DepFile._outdated: the names pip lists as outdated, each with its
\* latest version (the function `latest`)
\* DepFile._get_outdated_version_of_dependency finds one: has_outdated is
\* its result being other than None
has_outdated(name) == name \in DOMAIN latest

get_outdated_version_of_dependency(name) == latest[name]

\* Requirements.get_dependencies and Pipfile.get_dependencies
get_dependencies(decls) ==
    LET upd == {n \in DOMAIN decls :
                  /\ has_outdated(n)
                  /\ ~Contains(decls[n], get_outdated_version_of_dependency(n))}
    IN  [current |-> [dependencies |->
            [n \in DOMAIN decls |->
                [source |-> "pypi",
                 constraint |-> IF StrSpecs(decls[n]) = "" THEN "*"
                                ELSE StrSpecs(decls[n])]]],
         updated |-> [dependencies |->
            [n \in upd |->
                [source |-> "pypi",
                 constraint |-> "==" \o ToString(get_outdated_version_of_dependency(n))]]]]

\* DepFile.fingerprint: the md5 digest of the whole content, untagged
DepFile_fingerprint(content) == <<"", content>>

\* PipfileLock.fingerprint, had it not overridden DepFile.fingerprint
PipfileLock_fingerprint_whole(content) == <<"sha256:", content>>

\* PipfileLock.fingerprint: the sha256 digest of the JSON without "_meta"
PipfileLock_fingerprint(content) == <<"sha256:", content.pkgs>>

fingerprint(path, content) ==
    IF load_dependency_file(path) = "PipfileLock"
    THEN PipfileLock_fingerprint(content)
    ELSE DepFile_fingerprint(content)

\* PipfileLock.get_dependencies(direct_dependencies)
PipfileLock_get_dependencies(content, direct_dependencies) ==
    [n \in DOMAIN content.pkgs |->
        IF direct_dependencies # {}
        THEN [source |-> "pypi",
              version |-> [name |-> ToString(content.pkgs[n])],
              is_transitive |-> (n \notin direct_dependencies)]
        ELSE [source |-> "pypi",
              version |-> [name |-> ToString(content.pkgs[n])]]]

(***************************************************************************)
(* The inputs.                                                             *)
(***************************************************************************)
RECURSIVE SeqsUpTo(_, _)
SeqsUpTo(S, n) ==
    IF n = 0 THEN {<<>>}
    ELSE LET shorter == SeqsUpTo(S, n - 1)
         IN  shorter \cup {Append(s, x) : s \in shorter, x \in S}

DeclMaps(specs) == UNION {[S -> specs] : S \in SUBSET Names}
\* a lockfile pins every package of the project's closure to one version
PkgMaps == [Names -> Versions]
LockContents == [meta : Metas, pkgs : PkgMaps]


\* the manifests load_dependency_files(start) gathers when no cycle stops it
RECURSIVE ReachIn(_, _, _)
ReachIn(g, S, n) ==
    IF n = 0 THEN S
    ELSE ReachIn(g, S \cup UNION {Range(g[p]) : p \in S}, n - 1)

\* collect.py lines 9-14: a lockfile given as input stands for its manifest
manifest_for_input(path) ==
    CASE path = "Pipfile.lock" -> "Pipfile"
      [] path = "poetry.lock" -> "pyproject.toml"
      [] OTHER -> path

Reachable(g, start) ==
    ReachIn(g, {manifest_for_input(start)}, Cardinality(ManifestPaths))

\* dparse resolves "-r" lines of requirements files only
Graphs ==
    {g \in [ManifestPaths -> SeqsUpTo(ManifestPaths, MaxRefs)] : g["Pipfile"] = <<>>}

\* the manifests as a project checks them in: constraints "*" or "==1"
InitSpecs == {NoSpecs, Eq(1)}

\* the lockfiles as an earlier lock run left them
InitLocks == {[meta |-> "m1", pkgs |-> [n \in Names |-> 1]]}

\* pip's list of outdated packages: A alone or every package, each with
\* version 2 out
Latests == {[n \in S |-> 2] : S \in {{"A"}, Names}}

EmptyDoc == [manifests |-> <<>>, lockfiles |-> <<>>]

InitRun ==
    /\ inventory = <<>>
    /\ actOut = <<>>
    /\ cpc = "start"
    /\ stack = <<>>
    /\ files = <<>>
    /\ mi = 1
    /\ lockfiles = <<>>
    /\ direct_deps = {}
    /\ li = 1
    /\ output = EmptyDoc
    /\ apc = "idle"
    /\ data = EmptyDoc
    /\ ai = 1
    /\ adone = {}
    /\ err = None
    /\ visits = [p \in ManifestPaths |-> 0]
    /\ nupdates = [p \in LockPaths |-> 0]
    /\ hPre = <<>>
    /\ hPost = <<>>
    /\ ldisk0 = ldisk
    /\ mdisk0 = mdisk
    /\ drifts = 0

\* a project: the input path, the include graph, the files' contents and
\* pip's answers. Files the run cannot reach are left empty.
InitFiles(graphs, decls, locks, latests) ==
    /\ input_path \in InputPaths
    /\ refs \in graphs
    /\ mdisk \in [ManifestPaths -> decls]
    /\ \A p \in ManifestPaths \ Reachable(refs, input_path) :
           refs[p] = <<>> /\ mdisk[p] = <<>>
    /\ ldisk \in [LockPaths -> locks]
    /\ latest \in latests

\* projects of one requirements file that includes the Pipfile any number of times
ContentGraphs ==
    {g \in Graphs : g["b.txt"] = <<>> /\ Range(g["a.txt"]) \subseteq {"Pipfile"}}

Init ==
    /\ InitFiles(ContentGraphs, DeclMaps(InitSpecs), InitLocks, Latests)
    /\ mdisk["b.txt"] = <<>>
    /\ InitRun

\* projects of any include graph, with fixed contents
GraphDecls == {[n \in {"A"} |-> Eq(1)]}

InitGraph ==
    /\ InitFiles(Graphs, GraphDecls \cup {<<>>}, InitLocks, {[n \in Names |-> 2]})
    /\ \A p \in Reachable(refs, input_path) : mdisk[p] \in GraphDecls
    /\ InitRun

Put(f, k, v) == [x \in DOMAIN f \cup {k} |-> IF x = k THEN v ELSE f[x]]

(***************************************************************************)
(* collect.py                                                              *)
(***************************************************************************)
collectVars == <<cpc, stack, files, mi, lockfiles, direct_deps, li, output,
                 visits, nupdates, hPre, hPost>>
actVars == <<apc, data, ai, adone, mdisk0, actOut>>
envVars == <<input_path, refs, latest, ldisk0>>

\* an exception leaves collect: nothing after the raise runs
CollectRaise(e) ==
    /\ cpc' = "failed"
    /\ err' = e

\* collect.py lines 9-19 and models.py 306-307: the first call of
\* load_dependency_files builds the starting manifest
CollectStart ==
    /\ cpc = "start"
    /\ LET path == manifest_for_input(input_path)
       IN  \E valid \in BOOLEAN :
             IF valid
             THEN /\ cpc' = "resolve"
                  /\ stack' = <<[path |-> path, i |-> 1]>>
                  /\ files' = <<path>>
                  /\ visits' = [visits EXCEPT ![path] = @ + 1]
                  /\ err' = err
             ELSE /\ CollectRaise("ParseError")
                  /\ UNCHANGED <<stack, files, visits>>
    /\ UNCHANGED <<mi, lockfiles, direct_deps, li, output, nupdates, hPre, hPost>>
    /\ UNCHANGED <<actVars, envVars, mdisk, ldisk, inventory, drifts>>

\* models.py lines 310-313: the loop over f.dparser.resolved_files calls
\* load_dependency_files on the next included file (f.dparser is an object
\* for a requirements file and for a Pipfile; no path is remembered). A call
\* deeper than the interpreter allows raises RecursionError.
Descend ==
    /\ cpc = "resolve"
    /\ stack # <<>>
    /\ LET top == stack[Len(stack)]
       IN  /\ top.i <= Len(refs[top.path])
           /\ LET child == refs[top.path][top.i]
                  caller == [stack EXCEPT ![Len(stack)].i = top.i + 1]
              IN  IF Len(stack) >= RecursionLimit
                  THEN /\ CollectRaise("RecursionError")
                       /\ UNCHANGED <<stack, files, visits>>
                  ELSE \E valid \in BOOLEAN :
                         IF valid
                         THEN /\ stack' = Append(caller, [path |-> child, i |-> 1])
                              /\ files' = Append(files, child)
                              /\ visits' = [visits EXCEPT ![child] = @ + 1]
                              /\ UNCHANGED <<cpc, err>>
                         ELSE /\ CollectRaise("ParseError")
                              /\ UNCHANGED <<stack, files, visits>>
    /\ UNCHANGED <<mi, lockfiles, direct_deps, li, output, nupdates, hPre, hPost>>
    /\ UNCHANGED <<actVars, envVars, mdisk, ldisk, inventory, drifts>>

\* models.py line 315: a call of load_dependency_files returns its list
Return ==
    /\ cpc = "resolve"
    /\ stack # <<>>
    /\ LET top == stack[Len(stack)]
       IN  top.i > Len(refs[top.path])
    /\ stack' = SubSeq(stack, 1, Len(stack) - 1)
    /\ cpc' = IF Len(stack) = 1 THEN "manifests" ELSE cpc
    /\ UNCHANGED <<files, mi, lockfiles, direct_deps, li, output, visits, nupdates,
                   hPre, hPost, err>>
    /\ UNCHANGED <<actVars, envVars, mdisk, ldisk, inventory, drifts>>

\* collect.py lines 25-38: one turn of the manifest loop
ManifestStep ==
    /\ cpc = "manifests"
    /\ mi <= Len(files)
    /\ LET m == files[mi]
           manifest_dependencies == get_dependencies(mdisk[m])
           lf == lockfile(m)
       IN  /\ output' = [output EXCEPT !.manifests = Put(@, m, manifest_dependencies)]
           /\ \E valid \in BOOLEAN :
                IF lf # None /\ ~valid
                THEN /\ CollectRaise("ParseError")
                     /\ UNCHANGED <<mi, lockfiles, direct_deps>>
                ELSE /\ lockfiles' =
                          IF lf # None
                          THEN Append(lockfiles, [filename |-> lf, content |-> ldisk[lf]])
                          ELSE lockfiles
                     /\ direct_deps' = direct_deps \cup
                                       DOMAIN manifest_dependencies.current.dependencies
                     /\ mi' = mi + 1
                     /\ cpc' = IF mi = Len(files) THEN "lockfiles" ELSE cpc
                     /\ err' = err
    /\ UNCHANGED <<stack, files, li, visits, nupdates, hPre, hPost>>
    /\ UNCHANGED <<actVars, envVars, mdisk, ldisk, inventory, drifts>>

\* collect.py line 59, always true: an `updated` block whatever the update did
fingerprint_changed_always(before, after) == TRUE

\* collect.py line 59: current_fingerprint != lockfile.fingerprint()
fingerprint_changed(before, after) == before # after

\* collect.py lines 46-65: the inventory entry of one lockfile, from the
\* content read before the native update and the content loaded after it
lockfile_entry(p, before, after, direct_dependencies) ==
    LET current == [fingerprint |-> fingerprint(p, before),
                    dependencies |-> PipfileLock_get_dependencies(before, direct_dependencies)]
        updated == [fingerprint |-> fingerprint(p, after),
                    dependencies |-> PipfileLock_get_dependencies(after, direct_dependencies)]
    IN  IF fingerprint_changed(fingerprint(p, before), fingerprint(p, after))
        THEN [current |-> current, updated |-> updated]
        ELSE [current |-> current]

\* collect.py lines 43-65: one turn of the lockfile loop, the native update
\* (models.py 184-186) included
LockfileStep ==
    /\ cpc = "lockfiles"
    /\ li <= Len(lockfiles)
    /\ LET lf == lockfiles[li]
           p == lf.filename
       IN  \E ok \in BOOLEAN, new \in LockContents :
             IF ~ok
             THEN /\ CollectRaise("NativeToolError")
                  /\ output' = [output EXCEPT !.lockfiles =
                                   Put(@, p, [current |->
                                       lockfile_entry(p, lf.content, lf.content,
                                                      direct_deps).current])]
                  /\ UNCHANGED <<ldisk, li, nupdates, hPre, hPost>>
             ELSE /\ ldisk' = [ldisk EXCEPT ![p] = new]
                  /\ output' = [output EXCEPT !.lockfiles =
                                   Put(@, p, lockfile_entry(p, lf.content, new, direct_deps))]
                  /\ li' = li + 1
                  /\ nupdates' = [nupdates EXCEPT ![p] = @ + 1]
                  /\ hPre' = Put(hPre, p, lf.content)
                  /\ hPost' = Put(hPost, p, new)
                  /\ UNCHANGED <<cpc, err>>
    /\ UNCHANGED <<stack, files, mi, lockfiles, direct_deps, visits>>
    /\ UNCHANGED <<actVars, envVars, mdisk, inventory, drifts>>

\* the lockfile loop left before its last turn
loop_over_early(i, n) == TRUE

\* collect.py line 43: the lockfile loop is over
loop_over(i, n) == i > n

\* collect.py lines 67-68: the output file is written
Emit ==
    /\ cpc = "lockfiles"
    /\ loop_over(li, Len(lockfiles))
    /\ inventory' = <<output>>
    /\ cpc' = "done"
    /\ UNCHANGED <<stack, files, mi, lockfiles, direct_deps, li, output, visits,
                   nupdates, hPre, hPost, err>>
    /\ UNCHANGED <<actVars, envVars, mdisk, ldisk, drifts>>


(***************************************************************************)
(* Between the two runs.                                                   *)
(***************************************************************************)
\* the manifest drifts from the inventory: someone removes a declaration
\* after collect wrote the inventory and before act reads it
Drift ==
    /\ cpc = "done"
    /\ apc = "idle"
    /\ drifts < MaxDrift
    /\ \E m \in ManifestPaths : \E n \in DOMAIN mdisk[m] :
         mdisk' = [mdisk EXCEPT ![m] = [x \in DOMAIN mdisk[m] \ {n} |-> mdisk[m][x]]]
    /\ drifts' = drifts + 1
    /\ UNCHANGED <<collectVars, actVars, envVars, ldisk, inventory, err>>

(***************************************************************************)
(* act.py                                                                  *)
(*                                                                         *)
(* act.py imports the classes Manifest and LockFile, which models.py does  *)
(* not define. They are read here as the manifest and lockfile classes of  *)
(* models.py: LockFile(path).native_update() as PipfileLock.update(),      *)
(* dio_dependencies() as get_dependencies() with no direct dependencies,   *)
(* Manifest(path) as a fresh load of the file, manifest.dependencies() as  *)
(* dparser.dependencies and manifest.updater as dparse's updater.          *)
(***************************************************************************)
\* the keys of data['lockfiles'] and data['manifests'], in the order collect
\* inserted them
LockOrder == Dedup([i \in 1..Len(lockfiles) |-> lockfiles[i].filename])
ManifestOrder == Dedup(files)

\* an exception leaves act: nothing after the raise runs
ActRaise(e) ==
    /\ apc' = "failed"
    /\ err' = e

\* act.py lines 9-10: the inventory is read
ActStart ==
    /\ cpc = "done"
    /\ apc = "idle"
    /\ data' = inventory[1]
    /\ apc' = "running"
    /\ ai' = 1
    /\ mdisk0' = mdisk
    /\ UNCHANGED <<adone, actOut, err>>
    /\ UNCHANGED <<collectVars, envVars, mdisk, ldisk, inventory, drifts>>

\* LockFile.dio_dependencies(): the dependencies of the lockfile as loaded,
\* with no direct dependencies given
dio_dependencies(content) == PipfileLock_get_dependencies(content, {})

\* act.py lines 22-23 left out: the proposed block goes to the output as it came
keep_proposed(updated, dependencies, fp) == updated

\* act.py lines 22-23: the block is overwritten with what the lockfile holds now
record_actual(updated, dependencies, fp) ==
    [updated EXCEPT !.dependencies = dependencies, !.fingerprint = fp]

\* act.py lines 12-23: one turn of the lockfile loop, the native update included
ActLockfile ==
    /\ apc = "running"
    /\ ai <= Len(LockOrder)
    /\ LET p == LockOrder[ai]
           lockfile_data == data.lockfiles[p]
       IN  \E ok \in BOOLEAN, new \in LockContents :
             IF ~ok
             THEN /\ ActRaise("NativeToolError")
                  /\ UNCHANGED <<ldisk, data, ai>>
             ELSE /\ ldisk' = [ldisk EXCEPT ![p] = new]
                  /\ IF "updated" \notin DOMAIN lockfile_data
                     THEN /\ ActRaise("KeyError")
                          /\ UNCHANGED <<data, ai>>
                     ELSE /\ data' = [data EXCEPT !.lockfiles[p].updated =
                                         record_actual(@, dio_dependencies(new),
                                                       fingerprint(p, new))]
                          /\ ai' = ai + 1
                          /\ UNCHANGED <<apc, err>>
    /\ UNCHANGED <<adone, actOut, mdisk0>>
    /\ UNCHANGED <<collectVars, envVars, mdisk, inventory, drifts>>

\* the updates of manifest m that act has not applied yet
Pending(m) ==
    {n \in DOMAIN data.manifests[m].updated.dependencies : <<m, n>> \notin adone}

SomePending == \E k \in 1..Len(ManifestOrder) : Pending(ManifestOrder[k]) # {}

\* the manifest the outer loop of act.py line 25 is at
CurrentManifest ==
    LET k == CHOOSE k \in 1..Len(ManifestOrder) :
                 /\ Pending(ManifestOrder[k]) # {}
                 /\ \A j \in 1..(k - 1) : Pending(ManifestOrder[j]) = {}
    IN  ManifestOrder[k]

\* the manifest read once, before the loop over its updates
manifest_read_once(path, disk, at_start) == at_start[path]

\* act.py line 27: Manifest(manifest_path) reads the file in every turn
manifest_read(path, disk, at_start) == disk[path]

\* act.py lines 40-45 (models.py 69-74): dparse's updater puts `version`
\* in place of the specifiers of the one declaration
updater(content, dependency, version) ==
    [content EXCEPT ![dependency] = ParseSpecs(version)]

\* act.py lines 26-50: one turn of the inner loop, over the updated
\* dependencies of one manifest (in any order)
ActManifestDep ==
    /\ apc = "running"
    /\ ai > Len(LockOrder)
    /\ SomePending
    /\ LET m == CurrentManifest
       IN  \E n \in Pending(m) :
             LET content == manifest_read(m, mdisk, mdisk0)
                 version_to_update_to == data.manifests[m].updated.dependencies[n].constraint
             IN  IF n \notin DOMAIN data.manifests[m].current.dependencies
                 THEN /\ ActRaise("KeyError")
                      /\ UNCHANGED <<mdisk, adone>>
                 ELSE IF n \notin DOMAIN content
                 THEN /\ ActRaise("IndexError")
                      /\ UNCHANGED <<mdisk, adone>>
                 ELSE /\ mdisk' = [mdisk EXCEPT ![m] = updater(content, n, version_to_update_to)]
                      /\ adone' = adone \cup {<<m, n>>}
                      /\ UNCHANGED <<apc, err>>
    /\ UNCHANGED <<data, ai, actOut, mdisk0>>
    /\ UNCHANGED <<collectVars, envVars, ldisk, inventory, drifts>>

\* act.py lines 52-53: the output file is written
ActEmit ==
    /\ apc = "running"
    /\ ai > Len(LockOrder)
    /\ ~SomePending
    /\ actOut' = <<data>>
    /\ apc' = "done"
    /\ UNCHANGED <<data, ai, adone, mdisk0, err>>
    /\ UNCHANGED <<collectVars, envVars, mdisk, ldisk, inventory, drifts>>

Next ==
    \/ CollectStart
    \/ Descend
    \/ Return
    \/ ManifestStep
    \/ LockfileStep
    \/ Emit
    \/ Drift
    \/ ActStart
    \/ ActLockfile
    \/ ActManifestDep
    \/ ActEmit

Spec == Init /\ [][Next]_vars

SpecGraph == InitGraph /\ [][Next]_vars


(***************************************************************************)
(* Properties.                                                             *)
(***************************************************************************)
Written == inventory # <<>>

\* what lines 46-49 and 60-65 of collect.py are to record for content c
Snapshot(p, c) ==
    [fingerprint |-> fingerprint(p, c),
     dependencies |-> PipfileLock_get_dependencies(c, direct_deps)]

\* C1: the inventory entry of every lockfile collect processed has an
\* `updated` block exactly when the fingerprint taken after the native
\* update differs from the one taken before it; `updated` then holds the
\* fingerprint and dependencies read after the update, and `current` those
\* read before it. The inventory written is the document so built.
C1_DriftGating ==
    /\ cpc \in {"lockfiles", "done"} =>
         \A p \in DOMAIN hPost :
            LET e == output.lockfiles[p]
            IN  /\ ("updated" \in DOMAIN e) <=>
                      (fingerprint(p, hPre[p]) # fingerprint(p, hPost[p]))
                /\ e.current = Snapshot(p, hPre[p])
                /\ ("updated" \in DOMAIN e) => e.updated = Snapshot(p, hPost[p])
    /\ Written => inventory[1] = output

\* C1: a collect run ended, and the native update changed a lockfile
C1_Witness ==
    /\ cpc = "done"
    /\ \E p \in DOMAIN inventory[1].lockfiles :
          /\ "updated" \in DOMAIN inventory[1].lockfiles[p]
          /\ hPre[p].pkgs # hPost[p].pkgs

\* C2: when act has written its output, the `updated` block of every
\* lockfile of the inventory holds the fingerprint and the dependencies of
\* the lockfile as act's own native update left it, not the proposed ones.
C2_ActRecordsActual ==
    apc = "done" =>
       \A p \in DOMAIN inventory[1].lockfiles :
          /\ p \in DOMAIN actOut[1].lockfiles
          /\ actOut[1].lockfiles[p].updated.fingerprint = fingerprint(p, ldisk[p])
          /\ actOut[1].lockfiles[p].updated.dependencies = dio_dependencies(ldisk[p])

\* C2: act ended on an inventory whose proposed fingerprint is not the one
\* its own update produced
C2_Witness ==
    /\ apc = "done"
    /\ \E p \in DOMAIN inventory[1].lockfiles :
          inventory[1].lockfiles[p].updated.fingerprint
             # actOut[1].lockfiles[p].updated.fingerprint

\* C3: act, run on an inventory collect wrote, with the manifests as collect
\* saw them, fails only if the native tool fails; a lockfile entry without
\* an `updated` block is no error.
C3_ActAcceptsCollected ==
    (apc = "failed" /\ drifts = 0) => err = "NativeToolError"

\* C4: load_dependency_files builds each distinct path at most once and
\* ends normally, whatever the include graph.
C4_EachPathOnce ==
    /\ \A p \in ManifestPaths : visits[p] <= 1
    /\ err # "RecursionError"

\* C5: a dependency named in a manifest's `updated` block and not declared
\* in the manifest does not end the act run.
C5_NotFoundContinues ==
    ~(apc = "failed" /\ err = "IndexError")

\* C6: the inventory is written only by a collect run that processed every
\* manifest and every lockfile without error; a failed run writes nothing.
C6_FailClosed ==
    /\ Written =>
          /\ cpc = "done"
          /\ mi > Len(files)
          /\ li > Len(lockfiles)
          /\ DOMAIN inventory[1].manifests = Range(files)
          /\ DOMAIN inventory[1].lockfiles = {lockfiles[i].filename : i \in DOMAIN lockfiles}
          /\ \A p \in DOMAIN inventory[1].lockfiles : nupdates[p] >= 1
    /\ cpc = "failed" => ~Written

\* C6: the native update failed after the manifests were recorded, and no
\* inventory was written
C6_Witness ==
    /\ cpc = "failed"
    /\ err = "NativeToolError"
    /\ DOMAIN output.manifests # {}
    /\ DOMAIN output.lockfiles # {}
    /\ ~Written

\* the names every manifest of the inventory declares
AllDirect(doc) ==
    UNION {DOMAIN doc.manifests[m].current.dependencies : m \in DOMAIN doc.manifests}

\* C7: every dependency record of every lockfile of the inventory, in
\* `current` and in `updated`, carries is_transitive, true exactly when no
\* manifest of the run declares the name.
C7_TransitiveEverywhere ==
    Written =>
       \A p \in DOMAIN inventory[1].lockfiles :
          \A b \in DOMAIN inventory[1].lockfiles[p] :
             \A n \in DOMAIN inventory[1].lockfiles[p][b].dependencies :
                LET r == inventory[1].lockfiles[p][b].dependencies[n]
                IN  /\ "is_transitive" \in DOMAIN r
                    /\ r.is_transitive = (n \notin AllDirect(inventory[1]))

\* C8: the fingerprints collect records for a Pipfile.lock carry the tag
\* "sha256:", and when the content loaded after the update differs from the
\* content before it in the "_meta" block at most, the fingerprint taken
\* after equals the one recorded before; the fingerprint recorded in
\* `updated` is the one the comparison took.
C8_MetaBlind ==
    cpc \in {"lockfiles", "done"} =>
       \A p \in DOMAIN hPost :
          load_dependency_file(p) = "PipfileLock" =>
             LET e == output.lockfiles[p]
             IN  /\ e.current.fingerprint[1] = "sha256:"
                 /\ fingerprint(p, hPost[p])[1] = "sha256:"
                 /\ hPre[p].pkgs = hPost[p].pkgs =>
                       fingerprint(p, hPost[p]) = e.current.fingerprint
                 /\ ("updated" \in DOMAIN e) =>
                       e.updated.fingerprint = fingerprint(p, hPost[p])

\* C8: the native update changed the "_meta" block of a Pipfile.lock and
\* nothing else
C8_Witness ==
    /\ cpc = "done"
    /\ \E p \in DOMAIN hPost :
          /\ hPre[p].meta # hPost[p].meta
          /\ hPre[p].pkgs = hPost[p].pkgs
          /\ "updated" \notin DOMAIN inventory[1].lockfiles[p]

\* C9: when act has ended, every manifest declares the chosen constraint for
\* each dependency of its `updated` block and, for every other dependency,
\* what it declared when act started; no declaration is added or lost.
C9_RewritesExactly ==
    apc = "done" =>
       \A m \in ManifestPaths :
          LET chosen == IF m \in DOMAIN data.manifests
                        THEN data.manifests[m].updated.dependencies
                        ELSE <<>>
          IN  /\ DOMAIN mdisk[m] = DOMAIN mdisk0[m]
              /\ \A n \in DOMAIN mdisk0[m] :
                    IF n \in DOMAIN chosen
                    THEN StrSpecs(mdisk[m][n]) = chosen[n].constraint
                    ELSE mdisk[m][n] = mdisk0[m][n]

\* C9: act ended after two rewrites of one manifest, with a declaration it
\* was to leave alone
C9_Witness ==
    /\ apc = "done"
    /\ \E m \in DOMAIN data.manifests :
          Cardinality(DOMAIN data.manifests[m].updated.dependencies) = 2
    /\ \E m \in DOMAIN data.manifests :
          \E n \in DOMAIN mdisk0[m] :
             n \notin DOMAIN data.manifests[m].updated.dependencies

\* C10: in a collect run that ended, every lockfile of the inventory had its
\* native update run exactly once, and its `current` block is the lockfile
\* as it was before any update of the run.
C10_UpdateOncePerPath ==
    cpc = "done" =>
       \A p \in DOMAIN inventory[1].lockfiles :
          /\ nupdates[p] = 1
          /\ inventory[1].lockfiles[p].current = Snapshot(p, ldisk0[p])

====
